---- MODULE Spec2Model ----
(***************************************************************************)
(* URL-shortener microservice: shortcode allocation (POST /shorturls) and  *)
(* redirect resolution (GET /:shortcode) over the ShortUrl and Click       *)
(* collections.  Strings that the code inspects character by character     *)
(* (shortcodes) are tuples of one-character strings; every await of a      *)
(* handler is a step boundary, the storage operation it waits for executes *)
(* atomically inside the step.                                             *)
(***************************************************************************)
EXTENDS Integers, Sequences, FiniteSets, TLC

VARIABLES ShortUrl, Click, clock, req, obs, hist, nStarted, log

vars == <<ShortUrl, Click, clock, req, obs, hist, nStarted, log>>

----------------------------------------------------------------------------
(* Bounds of the model *)

NReq == 2
MaxRequests == 2
MaxTime == 120000
RaceTime == 60000

Reqs == 1..NReq

----------------------------------------------------------------------------
(* Program constants *)

GenAttempts == 8
SaveAttempts == 5
DefaultValidity == 30
MsPerMinute == 60000
GenLength == 6
MinLen == 3
MaxLen == 30

----------------------------------------------------------------------------
(* Characters and strings *)

UpperChars == <<"A","B","C","D","E","F","G","H","I","J","K","L","M",
                "N","O","P","Q","R","S","T","U","V","W","X","Y","Z">>
LowerChars == <<"a","b","c","d","e","f","g","h","i","j","k","l","m",
                "n","o","p","q","r","s","t","u","v","w","x","y","z">>
DigitChars == <<"0","1","2","3","4","5","6","7","8","9">>

Range(f) == {f[i] : i \in DOMAIN f}

Whitespace == {" "}

\* String.prototype.toLowerCase on one character
LowerChar(c) ==
  IF \E i \in 1..26 : UpperChars[i] = c
  THEN LowerChars[CHOOSE i \in 1..26 : UpperChars[i] = c]
  ELSE c

toLowerCase(s) == [i \in 1..Len(s) |-> LowerChar(s[i])]

RECURSIVE trimStart(_)
trimStart(s) ==
  IF s # << >> /\ Head(s) \in Whitespace THEN trimStart(Tail(s)) ELSE s

RECURSIVE trimEnd(_)
trimEnd(s) ==
  IF s # << >> /\ s[Len(s)] \in Whitespace
  THEN trimEnd(SubSeq(s, 1, Len(s) - 1)) ELSE s

\* String.prototype.trim
trim(s) == trimEnd(trimStart(s))

\* the alphabet of generateShortcode
chars == Range(UpperChars) \cup Range(LowerChars) \cup Range(DigitChars)

\* the character class [A-Za-z0-9_-]
ShortcodeChars == chars \cup {"_", "-"}

\* a pattern without the upper length limit: /^[A-Za-z0-9_-]{3,}$/
MatchesShortcodeUnbounded(cleaned) ==
  /\ Len(cleaned) >= MinLen
  /\ \A i \in 1..Len(cleaned) : cleaned[i] \in ShortcodeChars

\* /^[A-Za-z0-9_-]{3,30}$/.test(cleaned)
MatchesShortcode(cleaned) ==
  /\ Len(cleaned) >= MinLen
  /\ Len(cleaned) <= MaxLen
  /\ \A i \in 1..Len(cleaned) : cleaned[i] \in ShortcodeChars

\* the empty string stands for every falsy value (null, undefined, '')
Null == << >>

\* a normalisation that also folds the case
normalizeShortcodeFolded(code) ==
  IF code = Null THEN Null
  ELSE LET cleaned == trim(code)
       IN IF ~MatchesShortcode(cleaned) THEN Null ELSE toLowerCase(cleaned)

normalizeShortcode(code) ==
  IF code = Null THEN Null
  ELSE LET cleaned == trim(code)
       IN IF ~MatchesShortcode(cleaned) THEN Null ELSE cleaned

RESERVED_SHORTCODES ==
  { <<"s","h","o","r","t","u","r","l","s">>,
    <<"a","p","i">>,
    <<"a","d","m","i","n">>,
    <<"h","e","a","l","t","h">>,
    <<"f","a","v","i","c","o","n",".","i","c","o">> }

\* the membership test without the case folding
IsReservedExact(x) == x \in RESERVED_SHORTCODES

\* RESERVED_SHORTCODES.has(x.toLowerCase())
IsReserved(x) == toLowerCase(x) \in RESERVED_SHORTCODES

----------------------------------------------------------------------------
(* utils.js *)

ValidUrls == {"https://example.com", "http://a.io"}

\* validator.isURL(s, { require_protocol: true, protocols: ['http','https'] })
isValidUrl(s) == s \in ValidUrls

\* the values Math.random lets generateShortcode return while requests race
GenPool ==
  { <<"a","a","a","a","a","a">>,
    <<"a","a","a","a","a","b">> }

\* the same, one request at a time
AllGenPool == GenPool \cup { <<"H","e","a","l","T","h">> }

\* the values generateShortcode(length) can return, within pool
generateShortcode(pool, length) ==
  {c \in pool : Len(c) = length /\ \A i \in 1..Len(c) : c[i] \in chars}

----------------------------------------------------------------------------
(* logging-middleware/index.js *)

ALLOWED_STACKS == { <<"b","a","c","k","e","n","d">>,
                   <<"f","r","o","n","t","e","n","d">> }

ALLOWED_LEVELS ==
  { <<"d","e","b","u","g">>, <<"i","n","f","o">>,
    <<"e","r","r","o","r">>, <<"f","a","t","a","l">> }

BACKEND_PACKAGES ==
  { <<"c","a","c","h","e">>, <<"c","o","n","t","r","o","l","l","e","r">>,
    <<"c","r","o","n"," ","j","o","b">>, <<"d","b">>,
    <<"d","o","m","a","i","n">>, <<"h","a","n","d","l","e","r">>,
    <<"r","e","p","o","s","i","t","o","r","y">>, <<"r","o","u","t","e">>,
    <<"s","e","r","v","i","c","e">> }

FRONTEND_PACKAGES ==
  { <<"a","p","i">>, <<"c","o","m","p","o","n","e","n","t">>,
    <<"h","o","o","k">>, <<"p","a","g","e">>, <<"s","t","a","t","e">>,
    <<"s","t","y","l","e">> }

BOTH_PACKAGES ==
  { <<"a","u","t","h">>, <<"c","o","n","f","i","g">>,
    <<"m","i","d","d","l","e","w","a","r","e">>, <<"u","t","i","l","s">> }

\* normalizePackage(p)
normalizePackage(p) ==
  IF p = Null THEN Null
  ELSE LET s == toLowerCase(p)
       IN IF s \in { <<"c","r","o","n","-","j","o","b">>, <<"c","r","o","n","j","o","b">> }
          THEN <<"c","r","o","n"," ","j","o","b">>
          ELSE s

\* the result of validateAndNormalize: a payload, or a thrown Error
ThrownError == [ok |-> FALSE, stack |-> Null, level |-> Null, package |-> Null]

validateAndNormalize(stack, level, pkg) ==
  IF stack = Null \/ level = Null \/ pkg = Null THEN ThrownError
  ELSE LET s == toLowerCase(stack)
           l == toLowerCase(level)
           p == normalizePackage(pkg)
           allowed == BOTH_PACKAGES
                        \cup (IF s = <<"b","a","c","k","e","n","d">> THEN BACKEND_PACKAGES ELSE {})
                        \cup (IF s = <<"f","r","o","n","t","e","n","d">> THEN FRONTEND_PACKAGES ELSE {})
       IN IF s \notin ALLOWED_STACKS THEN ThrownError
          ELSE IF l \notin ALLOWED_LEVELS THEN ThrownError
          ELSE IF p \notin allowed THEN ThrownError
          ELSE [ok |-> TRUE, stack |-> s, level |-> l, package |-> p]

\* one Log call and the fallback file: the arguments, whether a token is
\* configured, the remote calls and fallbackWrite calls made, how the remote
\* call and the last file write ended, and how the call ended
IdleLog ==
  [pc |-> "idle", stack |-> Null, level |-> Null, package |-> Null,
   token |-> FALSE, payload |-> ThrownError, remoteCalls |-> 0,
   fallbackWrites |-> 0, remote |-> "none", wrote |-> FALSE, threw |-> FALSE,
   outcome |-> "none", file |-> << >>, calls |-> 0]

----------------------------------------------------------------------------
(* Request inputs *)

NoValidity == [isInt |-> FALSE, val |-> 0]
Minutes(n) == [isInt |-> TRUE, val |-> n]
\* a validity that is supplied and is not an integer, such as 1.5
Fractional == [isInt |-> FALSE, val |-> 1]

cAbc == <<"a","b","c">>
cAbd == <<"a","b","d">>
cAbC == <<"A","b","C">>
cAbcPadded == <<" ","a","b","c"," ">>
cAaaaaa == <<"a","a","a","a","a","a">>
cApi == <<"A","p","i">>
cApiPadded == <<" ","a","p","i">>
cHEALTH == <<"H","E","A","L","T","H">>
cShorturls == <<"s","h","o","r","t","u","r","l","s">>
cAdmin == <<"A","D","M","I","N">>
cFavicon == <<"f","a","v","i","c","o","n",".","i","c","o">>
cMaxLen == [i \in 1..MaxLen |-> "a"]
cTooLong == [i \in 1..(MaxLen + 1) |-> "a"]
cTooShort == <<"a","b">>
cBadChar == <<"a",".","c">>

Body(u, v, s) == [url |-> u, validity |-> v, shortcode |-> s]

\* the request bodies of POST /shorturls that run concurrently
CreateInputs ==
  { Body("https://example.com", Minutes(2), Null),
    Body("https://example.com", NoValidity, cAbd),
    Body("https://example.com", NoValidity, cAbcPadded) }

\* the path parameters of GET /:shortcode that run concurrently
RedirectInputs == { cAbc, cApi }

\* the request bodies of POST /shorturls, one request at a time
AllCreateInputs ==
  { Body("https://example.com", NoValidity, s) :
      s \in {Null, cAbc, cAbcPadded, cAbC, cAaaaaa, cApi, cApiPadded, cHEALTH,
             cShorturls, cAdmin, cFavicon, cTooShort, cBadChar} }
  \cup { Body("http://a.io", Minutes(1), s) : s \in {cAbd, cAaaaaa} }
  \cup { Body("https://example.com", Minutes(v), Null) : v \in {0, -1} }
  \cup { Body("https://example.com", Fractional, cAbd) }
  \cup { Body("https://example.com", NoValidity, s) : s \in {cMaxLen, cTooLong} }
  \cup { Body(u, NoValidity, cAbc) : u \in {"", "example.com"} }

\* the path parameters of GET /shorturls/:shortcode
DetailInputs == { cAbc, cAbd }
AllDetailInputs == { cAbc, cAaaaaa, cApi, cAbC }

\* the path parameters of GET /:shortcode, one request at a time
AllRedirectInputs ==
  { cAbc, cAaaaaa, <<"a","a","a","a","a","b">>, <<"A","B","C">>,
    cApi, <<"a","p","i">>, cHEALTH, <<"h","e","a","l","t","h">>,
    cShorturls, <<"S","h","o","r","t","U","r","l","s">>, cAdmin,
    <<"a","d","m","i","n">>, cFavicon,
    <<"F","A","V","I","C","O","N",".","I","C","O">> }

----------------------------------------------------------------------------
(* models.js: the documents and the storage operations *)

NullDoc == [shortcode |-> Null, originalUrl |-> "", createdAt |-> 0,
            expiryAt |-> 0, validityMinutes |-> 0, clicksCount |-> 0]

\* a schema whose clicksCount defaults to 1
NewShortUrlCounted(sc, url, now, expiryAt, validMinutes) ==
  [shortcode |-> sc, originalUrl |-> url, createdAt |-> now,
   expiryAt |-> expiryAt, validityMinutes |-> validMinutes, clicksCount |-> 1]

\* new ShortUrl({...}): clicksCount takes the schema default
NewShortUrl(sc, url, now, expiryAt, validMinutes) ==
  [shortcode |-> sc, originalUrl |-> url, createdAt |-> now,
   expiryAt |-> expiryAt, validityMinutes |-> validMinutes, clicksCount |-> 0]

\* new Click({...}): clickedAt takes the schema default Date.now
NewClick(sc, now) == [shortcode |-> sc, clickedAt |-> now]

\* a lookup that never matches
findOneMiss(coll, sc) == NullDoc

\* a lookup that leaves out the records that have expired
findOneUnexpired(coll, sc) ==
  IF \E i \in 1..Len(coll) : coll[i].shortcode = sc /\ clock <= coll[i].expiryAt
  THEN coll[CHOOSE i \in 1..Len(coll) :
              coll[i].shortcode = sc /\ clock <= coll[i].expiryAt]
  ELSE NullDoc

\* ShortUrl.findOne({ shortcode: sc })
findOne(coll, sc) ==
  IF \E i \in 1..Len(coll) : coll[i].shortcode = sc
  THEN coll[CHOOSE i \in 1..Len(coll) :
              /\ coll[i].shortcode = sc
              /\ \A j \in 1..(i - 1) : coll[j].shortcode # sc]
  ELSE NullDoc

\* a collection without the unique index: no insert is ever rejected
DuplicateKeyNoIndex(coll, sc) == FALSE

\* the unique index on shortcode rejects the insert (E11000)
DuplicateKey(coll, sc) == \E i \in 1..Len(coll) : coll[i].shortcode = sc

\* an update that matches no record: the increment is lost
updateOneIncLost(coll, sc) == coll

\* ShortUrl.updateOne({ shortcode: sc }, { $inc: { clicksCount: 1 } })
updateOneInc(coll, sc) ==
  IF \E i \in 1..Len(coll) : coll[i].shortcode = sc
  THEN LET k == CHOOSE i \in 1..Len(coll) :
                  /\ coll[i].shortcode = sc
                  /\ \A j \in 1..(i - 1) : coll[j].shortcode # sc
       IN [coll EXCEPT ![k].clicksCount = @ + 1]
  ELSE coll

\* the outcomes of one storage call
StorageOutcomes == {"ok", "error"}

----------------------------------------------------------------------------
(* Per-request state *)

NoRes == [status |-> 0, error |-> "", shortLink |-> Null, expiry |-> 0,
          location |-> "", clicksTotal |-> 0, clicks |-> << >>,
          list |-> << >>]

Json(status, error) == [NoRes EXCEPT !.status = status, !.error = error]

IdleReq ==
  [kind |-> "idle", pc |-> "idle", body |-> Body("", NoValidity, Null),
   sc |-> Null, validMinutes |-> 0, chosen |-> Null, genAttempt |-> 0,
   attempt |-> 0, retrying |-> FALSE, now |-> 0, expiryAt |-> 0,
   doc |-> NullDoc, res |-> NoRes]

\* what a request has done so far (observation only, read by no action)
NoObs ==
  [dbOps |-> 0, finds |-> 0, inserts |-> 0, saves |-> 0, dups |-> 0,
   desired |-> Null, preOk |-> FALSE, existed |-> FALSE, active |-> FALSE,
   clickSaved |-> 0, incs |-> 0, writeFailed |-> FALSE, dbFailed |-> FALSE,
   candidate |-> Null, failed |-> {}]

\* what has happened so far (observation only, read by no action): the
\* shortcodes of the 302 responses sent, and whether a click write failed
NoHist == [sent302 |-> << >>, writeFailed |-> FALSE]

\* the record an earlier POST /shorturls with
\* { url: "http://a.io", validity: 1, shortcode: "abc" } stored at time 0
StoredAbc == NewShortUrl(cAbc, "http://a.io", 0, 1 * MsPerMinute, 1)

Init ==
  /\ ShortUrl = << StoredAbc >>
  /\ Click = << >>
  /\ clock = 0
  /\ req = [r \in Reqs |-> IdleReq]
  /\ obs = [r \in Reqs |-> NoObs]
  /\ hist = NoHist
  /\ nStarted = 0
  /\ log = IdleLog

\* res.json / res.redirect end a request inside the handler step that calls
\* them: no other handler runs before the slot is released (see Finish)
NoneDone == \A q \in Reqs : req[q].pc # "done"

\* no request is in flight
Quiescent == \A q \in Reqs : req[q].pc = "idle"

\* a new request takes the lowest free slot
FreeSlot(r) ==
  /\ NoneDone
  /\ req[r].pc = "idle"
  /\ \A q \in Reqs : q < r => req[q].pc # "idle"
  /\ nStarted < MaxRequests

----------------------------------------------------------------------------
(* Responses *)

ErrUrlRequired == "url is required and must be a string"
ErrUrlInvalid == "url must include protocol (http/https) and be a valid URL"
ErrValidity == "validity must be a positive integer (minutes)"
ErrShortcodeInvalid == "invalid shortcode"
ErrNotAllowed == "shortcode not allowed"
ErrExists == "shortcode already exists"
ErrExhausted == "unable to generate unique shortcode, try again"
ErrInternal == "internal server error"
ErrNotFound == "shortcode not found"
ErrExpired == "shortcode expired"

\* res.status(status).json({ error }) ends the request
Respond(q, status, error) ==
  [q EXCEPT !.pc = "done", !.res = Json(status, error)]

\* Number.isInteger(Number(validity)) && Number(validity) > 0 ? Number(validity) : 30
ValidMinutes(validity) ==
  IF validity.isInt /\ validity.val > 0 THEN validity.val ELSE DefaultValidity

----------------------------------------------------------------------------
(* POST /shorturls *)

\* the handler up to its first await: validation, and the synchronous head
\* of makeUniqueShortcode
CreateStart(r, b) ==
  LET q0 == [IdleReq EXCEPT !.kind = "create", !.body = b,
                            !.validMinutes = ValidMinutes(b.validity)]
      normalized == normalizeShortcode(b.shortcode)
      desired == trim(normalized)
  IN /\ FreeSlot(r)
     /\ nStarted' = nStarted + 1 /\ log' = log
     /\ UNCHANGED <<ShortUrl, Click, clock, hist>>
     /\ IF b.url = ""
        THEN /\ req' = [req EXCEPT ![r] = Respond(q0, 400, ErrUrlRequired)]
             /\ obs' = [obs EXCEPT ![r] = NoObs]
        ELSE IF ~isValidUrl(b.url)
        THEN /\ req' = [req EXCEPT ![r] = Respond(q0, 400, ErrUrlInvalid)]
             /\ obs' = [obs EXCEPT ![r] = NoObs]
        ELSE IF q0.validMinutes <= 0
        THEN /\ req' = [req EXCEPT ![r] = Respond(q0, 400, ErrValidity)]
             /\ obs' = [obs EXCEPT ![r] = NoObs]
        ELSE IF b.shortcode # Null
        THEN IF normalized = Null
             THEN /\ req' = [req EXCEPT ![r] =
                               Respond(q0, 400, ErrShortcodeInvalid)]
                  /\ obs' = [obs EXCEPT ![r] = NoObs]
             ELSE IF IsReserved(desired)
             THEN /\ req' = [req EXCEPT ![r] = Respond(q0, 400, ErrNotAllowed)]
                  /\ obs' = [obs EXCEPT ![r] =
                               [NoObs EXCEPT !.desired = normalized]]
             ELSE /\ req' = [req EXCEPT ![r] =
                               [q0 EXCEPT !.pc = "allocDesired", !.sc = desired]]
                  /\ obs' = [obs EXCEPT ![r] =
                               [NoObs EXCEPT !.desired = normalized,
                                  !.existed = \E i \in 1..Len(ShortUrl) :
                                     ShortUrl[i].shortcode = desired]]
        ELSE /\ req' = [req EXCEPT ![r] = [q0 EXCEPT !.pc = "allocGen"]]
             /\ obs' = [obs EXCEPT ![r] = NoObs]

\* a handler that reads the clock again for createdAt when it retries the
\* insert, and keeps the expiry it computed first
AllocatedRestamped(q, code, now) ==
  IF ~q.retrying
  THEN [q EXCEPT !.chosen = code, !.now = now,
                 !.expiryAt = now + q.validMinutes * MsPerMinute,
                 !.attempt = 0, !.pc = "save"]
  ELSE IF q.attempt + 1 < SaveAttempts
  THEN [q EXCEPT !.chosen = code, !.now = now, !.attempt = @ + 1, !.pc = "save"]
  ELSE Respond([q EXCEPT !.chosen = code, !.attempt = @ + 1], 500, ErrInternal)

\* makeUniqueShortcode returned `code` to the handler
Allocated(q, code, now) ==
  IF ~q.retrying
  THEN [q EXCEPT !.chosen = code, !.now = now,
                 !.expiryAt = now + q.validMinutes * MsPerMinute,
                 !.attempt = 0, !.pc = "save"]
  ELSE IF q.attempt + 1 < SaveAttempts
  THEN [q EXCEPT !.chosen = code, !.attempt = @ + 1, !.pc = "save"]
  ELSE Respond([q EXCEPT !.chosen = code, !.attempt = @ + 1], 500, ErrInternal)

\* makeUniqueShortcode(desired): the existence check and its result
AllocDesired(r) ==
  /\ NoneDone
  /\ req[r].pc = "allocDesired"
  /\ UNCHANGED <<ShortUrl, Click, clock, hist, nStarted, log>>
  /\ \E outcome \in StorageOutcomes :
       IF outcome = "error"
       THEN /\ req' = [req EXCEPT ![r] = Respond(@, 500, ErrInternal)]
            /\ obs' = [obs EXCEPT ![r].dbOps = @ + 1, ![r].finds = @ + 1,
                                  ![r].dbFailed = TRUE]
       ELSE IF findOne(ShortUrl, req[r].sc) # NullDoc
       THEN /\ req' = [req EXCEPT ![r] = Respond(@, 409, ErrExists)]
            /\ obs' = [obs EXCEPT ![r].dbOps = @ + 1, ![r].finds = @ + 1]
       ELSE /\ req' = [req EXCEPT ![r] = Allocated(@, req[r].sc, clock)]
            /\ obs' = [obs EXCEPT ![r].dbOps = @ + 1, ![r].finds = @ + 1,
                                  ![r].preOk = TRUE]

\* a generation loop that runs one round too many
NextCandidateExtraRound(q) ==
  IF q.genAttempt + 1 < GenAttempts + 1
  THEN [q EXCEPT !.genAttempt = @ + 1]
  ELSE Respond([q EXCEPT !.genAttempt = @ + 1], 500, ErrExhausted)

\* one more round of the generation loop, or the throw after the last one
NextCandidate(q) ==
  IF q.genAttempt + 1 < GenAttempts
  THEN [q EXCEPT !.genAttempt = @ + 1]
  ELSE Respond([q EXCEPT !.genAttempt = @ + 1], 500, ErrExhausted)

\* makeUniqueShortcode(null): one round of the generation loop
AllocGenerated(r, candidate) ==
  /\ NoneDone
  /\ req[r].pc = "allocGen"
  /\ UNCHANGED <<ShortUrl, Click, clock, hist, nStarted, log>>
  /\ IF IsReserved(candidate)
       THEN /\ req' = [req EXCEPT ![r] = NextCandidate(@)]
            /\ obs' = [obs EXCEPT ![r].candidate = candidate]
       ELSE \E outcome \in StorageOutcomes :
              /\ obs' = [obs EXCEPT ![r].dbOps = @ + 1, ![r].finds = @ + 1,
                                    ![r].dbFailed = @ \/ outcome = "error",
                                    ![r].candidate = candidate]
              /\ IF outcome = "error"
                 THEN req' = [req EXCEPT ![r] = Respond(@, 500, ErrInternal)]
                 ELSE IF findOne(ShortUrl, candidate) # NullDoc
                 THEN req' = [req EXCEPT ![r] = NextCandidate(@)]
                 ELSE req' = [req EXCEPT ![r] = Allocated(@, candidate, clock)]

\* a save loop that retries after every error, not only after E11000
SaveRetryingAll(r) ==
  LET q == req[r]
      d == NewShortUrl(q.chosen, q.body.url, q.now, q.expiryAt, q.validMinutes)
  IN /\ NoneDone
     /\ q.pc = "save"
     /\ UNCHANGED <<Click, clock, hist, nStarted, log>>
     /\ \E outcome \in StorageOutcomes :
          IF outcome = "error"
          THEN /\ req' = [req EXCEPT ![r] =
                            [@ EXCEPT !.pc = "allocGen", !.retrying = TRUE,
                                      !.genAttempt = 0]]
               /\ obs' = [obs EXCEPT ![r].dbOps = @ + 1, ![r].saves = @ + 1,
                                     ![r].dbFailed = TRUE]
               /\ UNCHANGED ShortUrl
          ELSE IF DuplicateKey(ShortUrl, q.chosen)
          THEN /\ req' = [req EXCEPT ![r] =
                            [@ EXCEPT !.pc = "allocGen", !.retrying = TRUE,
                                      !.genAttempt = 0]]
               /\ obs' = [obs EXCEPT ![r].dbOps = @ + 1, ![r].saves = @ + 1,
                                     ![r].dups = @ + 1,
                                     ![r].failed = @ \cup {q.chosen}]
               /\ UNCHANGED ShortUrl
          ELSE /\ ShortUrl' = Append(ShortUrl, d)
               /\ req' = [req EXCEPT ![r] =
                            [@ EXCEPT !.pc = "done",
                               !.res = [NoRes EXCEPT !.status = 201,
                                          !.shortLink = q.chosen,
                                          !.expiry = q.expiryAt]]]
               /\ obs' = [obs EXCEPT ![r].dbOps = @ + 1, ![r].saves = @ + 1,
                                     ![r].inserts = @ + 1]

\* one round of the save loop: new ShortUrl({...}).save() and its result
Save(r) ==
  LET q == req[r]
      d == NewShortUrl(q.chosen, q.body.url, q.now, q.expiryAt, q.validMinutes)
  IN /\ NoneDone
     /\ q.pc = "save"
     /\ UNCHANGED <<Click, clock, hist, nStarted, log>>
     /\ \E outcome \in StorageOutcomes :
          IF outcome = "error"
          THEN /\ req' = [req EXCEPT ![r] = Respond(@, 500, ErrInternal)]
               /\ obs' = [obs EXCEPT ![r].dbOps = @ + 1, ![r].saves = @ + 1,
                                     ![r].dbFailed = TRUE]
               /\ UNCHANGED ShortUrl
          ELSE IF DuplicateKey(ShortUrl, q.chosen)
          THEN /\ req' = [req EXCEPT ![r] =
                            [@ EXCEPT !.pc = "allocGen", !.retrying = TRUE,
                                      !.genAttempt = 0]]
               /\ obs' = [obs EXCEPT ![r].dbOps = @ + 1, ![r].saves = @ + 1,
                                     ![r].dups = @ + 1,
                                     ![r].failed = @ \cup {q.chosen}]
               /\ UNCHANGED ShortUrl
          ELSE /\ ShortUrl' = Append(ShortUrl, d)
               /\ req' = [req EXCEPT ![r] =
                            [@ EXCEPT !.pc = "done",
                               !.res = [NoRes EXCEPT !.status = 201,
                                          !.shortLink = q.chosen,
                                          !.expiry = q.expiryAt]]]
               /\ obs' = [obs EXCEPT ![r].dbOps = @ + 1, ![r].saves = @ + 1,
                                     ![r].inserts = @ + 1]

----------------------------------------------------------------------------
(* GET /:shortcode *)

\* the handler up to its first await: the reserved-name guard
RedirectStart(r, sc) ==
  LET q0 == [IdleReq EXCEPT !.kind = "redirect", !.sc = sc]
  IN /\ FreeSlot(r)
     /\ nStarted' = nStarted + 1 /\ log' = log
     /\ obs' = [obs EXCEPT ![r] = NoObs]
     /\ UNCHANGED <<ShortUrl, Click, clock, hist>>
     /\ IF IsReserved(sc)
        THEN req' = [req EXCEPT ![r] = Respond(q0, 404, ErrNotFound)]
        ELSE req' = [req EXCEPT ![r] = [q0 EXCEPT !.pc = "find"]]

\* ShortUrl.findOne({ shortcode: sc }) and the not-found branch
Find(r) ==
  /\ NoneDone
  /\ req[r].pc = "find"
  /\ UNCHANGED <<ShortUrl, Click, clock, hist, nStarted, log>>
  /\ \E outcome \in StorageOutcomes :
       /\ obs' = [obs EXCEPT ![r].dbOps = @ + 1, ![r].finds = @ + 1,
                             ![r].dbFailed = outcome = "error"]
       /\ IF outcome = "error"
          THEN req' = [req EXCEPT ![r] = Respond(@, 500, ErrInternal)]
          ELSE IF findOne(ShortUrl, req[r].sc) = NullDoc
          THEN req' = [req EXCEPT ![r] = Respond(@, 404, ErrNotFound)]
          ELSE req' = [req EXCEPT ![r] =
                         [@ EXCEPT !.pc = "expiry",
                                   !.doc = findOne(ShortUrl, req[r].sc)]]

\* the comparison with the boundary on the wrong side
ExpiredAtBoundary(now, doc) == now >= doc.expiryAt

\* now > doc.expiryAt
Expired(now, doc) == now > doc.expiryAt

\* the click recorded before the expiry check instead of after it
ExpiryCheckAfterRecording(r) ==
  /\ NoneDone
  /\ req[r].pc = "expiry"
  /\ UNCHANGED <<ShortUrl, clock, hist, nStarted, log>>
  /\ Click' = Append(Click, NewClick(req[r].sc, clock))
  /\ obs' = [obs EXCEPT ![r].active = ~(clock > req[r].doc.expiryAt)]
  /\ IF clock > req[r].doc.expiryAt
     THEN req' = [req EXCEPT ![r] =
                    Respond([@ EXCEPT !.now = clock], 410, ErrExpired)]
     ELSE req' = [req EXCEPT ![r] = [@ EXCEPT !.now = clock, !.pc = "inc"]]

\* the handler resumes after the lookup: the expiry check, then new Click
ExpiryCheck(r) ==
  /\ NoneDone
  /\ req[r].pc = "expiry"
  /\ UNCHANGED <<ShortUrl, Click, clock, hist, nStarted, log>>
  /\ IF Expired(clock, req[r].doc)
     THEN /\ req' = [req EXCEPT ![r] =
                       Respond([@ EXCEPT !.now = clock], 410, ErrExpired)]
          /\ obs' = obs
     ELSE /\ req' = [req EXCEPT ![r] =
                       [@ EXCEPT !.now = clock, !.pc = "clickSave"]]
          /\ obs' = [obs EXCEPT ![r].active = TRUE]

\* a handler that swallows the failure of click.save() and goes on
ClickSaveSwallowed(r) ==
  /\ NoneDone
  /\ req[r].pc = "clickSave"
  /\ UNCHANGED <<ShortUrl, clock, nStarted, log>>
  /\ \E outcome \in StorageOutcomes :
       IF outcome = "error"
       THEN /\ req' = [req EXCEPT ![r].pc = "inc"]
            /\ obs' = [obs EXCEPT ![r].dbOps = @ + 1, ![r].dbFailed = TRUE,
                                  ![r].writeFailed = TRUE]
            /\ hist' = [hist EXCEPT !.writeFailed = TRUE]
            /\ UNCHANGED Click
       ELSE /\ Click' = Append(Click, NewClick(req[r].sc, req[r].now))
            /\ UNCHANGED hist
            /\ req' = [req EXCEPT ![r].pc = "inc"]
            /\ obs' = [obs EXCEPT ![r].dbOps = @ + 1, ![r].clickSaved = @ + 1]

\* click.save()
ClickSave(r) ==
  /\ NoneDone
  /\ req[r].pc = "clickSave"
  /\ UNCHANGED <<ShortUrl, clock, nStarted, log>>
  /\ \E outcome \in StorageOutcomes :
       IF outcome = "error"
       THEN /\ req' = [req EXCEPT ![r] = Respond(@, 500, ErrInternal)]
            /\ obs' = [obs EXCEPT ![r].dbOps = @ + 1, ![r].dbFailed = TRUE,
                                  ![r].writeFailed = TRUE]
            /\ hist' = [hist EXCEPT !.writeFailed = TRUE]
            /\ UNCHANGED Click
       ELSE /\ Click' = Append(Click, NewClick(req[r].sc, req[r].now))
            /\ UNCHANGED hist
            /\ req' = [req EXCEPT ![r].pc = "inc"]
            /\ obs' = [obs EXCEPT ![r].dbOps = @ + 1, ![r].clickSaved = @ + 1]

\* ShortUrl.updateOne(..., { $inc: { clicksCount: 1 } }), then res.redirect
Increment(r) ==
  /\ NoneDone
  /\ req[r].pc = "inc"
  /\ UNCHANGED <<Click, clock, nStarted, log>>
  /\ \E outcome \in StorageOutcomes :
       IF outcome = "error"
       THEN /\ req' = [req EXCEPT ![r] = Respond(@, 500, ErrInternal)]
            /\ obs' = [obs EXCEPT ![r].dbOps = @ + 1, ![r].dbFailed = TRUE,
                                  ![r].writeFailed = TRUE]
            /\ hist' = [hist EXCEPT !.writeFailed = TRUE]
            /\ UNCHANGED ShortUrl
       ELSE /\ ShortUrl' = updateOneInc(ShortUrl, req[r].sc)
            /\ hist' = [hist EXCEPT !.sent302 = Append(@, req[r].sc)]
            /\ req' = [req EXCEPT ![r] =
                         [@ EXCEPT !.pc = "done",
                            !.res = [NoRes EXCEPT !.status = 302,
                                       !.location = req[r].doc.originalUrl]]]
            /\ obs' = [obs EXCEPT ![r].dbOps = @ + 1, ![r].incs = @ + 1]

----------------------------------------------------------------------------
(* GET /shorturls/:shortcode and GET /shorturls *)

\* the position of d in a sequence sorted by descending field k
InsertDesc(sorted, d, k) ==
  LET n == Cardinality({i \in 1..Len(sorted) : sorted[i][k] >= d[k]})
  IN SubSeq(sorted, 1, n) \o <<d>> \o SubSeq(sorted, n + 1, Len(sorted))

\* .sort({ k: -1 }); documents with equal keys keep their storage order
RECURSIVE SortDesc(_, _)
SortDesc(s, k) ==
  IF s = << >> THEN << >>
  ELSE InsertDesc(SortDesc(SubSeq(s, 1, Len(s) - 1), k), s[Len(s)], k)

\* .limit(n)
Limit(s, n) == IF Len(s) <= n THEN s ELSE SubSeq(s, 1, n)

ListLimit == 100

\* Click.find({ shortcode: sc }).sort({ clickedAt: -1 })
ClickFind(coll, sc) ==
  SortDesc(SelectSeq(coll, LAMBDA c : c.shortcode = sc), "clickedAt")

\* ShortUrl.find({}).sort({ createdAt: -1 }).limit(100)
ShortUrlFindAll(coll) == Limit(SortDesc(coll, "createdAt"), ListLimit)

\* the stats handler is entered; its first statement awaits findOne
DetailStart(r, sc) ==
  /\ FreeSlot(r)
  /\ nStarted' = nStarted + 1 /\ log' = log
  /\ req' = [req EXCEPT ![r] =
               [IdleReq EXCEPT !.kind = "detail", !.sc = sc, !.pc = "detailFind"]]
  /\ obs' = [obs EXCEPT ![r] = NoObs]
  /\ UNCHANGED <<ShortUrl, Click, clock, hist>>

\* ShortUrl.findOne({ shortcode: sc }) and the not-found branch
DetailFind(r) ==
  /\ NoneDone
  /\ req[r].pc = "detailFind"
  /\ UNCHANGED <<ShortUrl, Click, clock, hist, nStarted, log>>
  /\ \E outcome \in StorageOutcomes :
       /\ obs' = [obs EXCEPT ![r].dbOps = @ + 1, ![r].finds = @ + 1,
                             ![r].dbFailed = outcome = "error"]
       /\ IF outcome = "error"
          THEN req' = [req EXCEPT ![r] = Respond(@, 500, ErrInternal)]
          ELSE IF findOne(ShortUrl, req[r].sc) = NullDoc
          THEN req' = [req EXCEPT ![r] = Respond(@, 404, ErrNotFound)]
          ELSE req' = [req EXCEPT ![r] =
                         [@ EXCEPT !.pc = "detailClicks",
                                   !.doc = findOne(ShortUrl, req[r].sc)]]

\* Click.find(...) and the response built from the record read before it
DetailClicks(r) ==
  /\ NoneDone
  /\ req[r].pc = "detailClicks"
  /\ UNCHANGED <<ShortUrl, Click, clock, hist, nStarted, log>>
  /\ \E outcome \in StorageOutcomes :
       /\ obs' = [obs EXCEPT ![r].dbOps = @ + 1, ![r].finds = @ + 1,
                             ![r].dbFailed = outcome = "error"]
       /\ IF outcome = "error"
          THEN req' = [req EXCEPT ![r] = Respond(@, 500, ErrInternal)]
          ELSE req' = [req EXCEPT ![r] =
                         [@ EXCEPT !.pc = "done",
                            !.res = [NoRes EXCEPT !.status = 200,
                                       !.shortLink = req[r].sc,
                                       !.expiry = req[r].doc.expiryAt,
                                       !.location = req[r].doc.originalUrl,
                                       !.clicksTotal = req[r].doc.clicksCount,
                                       !.clicks = ClickFind(Click, req[r].sc)]]]

\* the list handler is entered; its first statement awaits find
ListStart(r) ==
  /\ FreeSlot(r)
  /\ nStarted' = nStarted + 1 /\ log' = log
  /\ req' = [req EXCEPT ![r] = [IdleReq EXCEPT !.kind = "list", !.pc = "listFind"]]
  /\ obs' = [obs EXCEPT ![r] = NoObs]
  /\ UNCHANGED <<ShortUrl, Click, clock, hist>>

\* ShortUrl.find({}).sort(...).limit(100) and the response
ListFind(r) ==
  /\ NoneDone
  /\ req[r].pc = "listFind"
  /\ UNCHANGED <<ShortUrl, Click, clock, hist, nStarted, log>>
  /\ \E outcome \in StorageOutcomes :
       /\ obs' = [obs EXCEPT ![r].dbOps = @ + 1, ![r].finds = @ + 1,
                             ![r].dbFailed = outcome = "error"]
       /\ IF outcome = "error"
          THEN req' = [req EXCEPT ![r] = Respond(@, 500, ErrInternal)]
          ELSE req' = [req EXCEPT ![r] =
                         [@ EXCEPT !.pc = "done",
                            !.res = [NoRes EXCEPT !.status = 200,
                                       !.list = ShortUrlFindAll(ShortUrl)]]]

----------------------------------------------------------------------------
(* Environment *)

TickSteps == {MsPerMinute}

\* time passes and a TTL index on expiryAt removes the expired records
TickPurging(d) ==
  /\ NoneDone
  /\ clock + d <= MaxTime
  /\ clock' = clock + d
  /\ ShortUrl' = SelectSeq(ShortUrl, LAMBDA doc : ~Expired(clock + d, doc))
  /\ UNCHANGED <<Click, req, obs, hist, nStarted, log>>

\* time passes
Tick(d) ==
  /\ NoneDone
  /\ clock + d <= MaxTime
  /\ clock' = clock + d
  /\ UNCHANGED <<ShortUrl, Click, req, obs, hist, nStarted, log>>

\* the response has been sent; the slot is free for the next request
Finish(r) ==
  /\ req[r].pc = "done"
  /\ req' = [req EXCEPT ![r] = IdleReq]
  /\ obs' = [obs EXCEPT ![r] = NoObs]
  /\ UNCHANGED <<ShortUrl, Click, clock, hist, nStarted, log>>

Next ==
  \/ \E r \in Reqs, b \in CreateInputs : CreateStart(r, b)
  \/ \E r \in Reqs : AllocDesired(r)
  \/ \E r \in Reqs, c \in generateShortcode(GenPool, GenLength) :
       AllocGenerated(r, c)
  \/ \E r \in Reqs : Save(r)
  \/ \E r \in Reqs, sc \in RedirectInputs : RedirectStart(r, sc)
  \/ \E r \in Reqs : Find(r)
  \/ \E r \in Reqs : ExpiryCheck(r)
  \/ \E r \in Reqs : ClickSave(r)
  \/ \E r \in Reqs : Increment(r)
  \/ \E r \in Reqs, sc \in DetailInputs : DetailStart(r, sc)
  \/ \E r \in Reqs : DetailFind(r)
  \/ \E r \in Reqs : DetailClicks(r)
  \/ \E r \in Reqs : ListStart(r)
  \/ \E r \in Reqs : ListFind(r)
  \/ \E d \in TickSteps : clock + d <= RaceTime /\ Tick(d)
  \/ \E r \in Reqs : Finish(r)

Spec == Init /\ [][Next]_vars

----------------------------------------------------------------------------
(* One request at a time, over every input, on a store that also holds    *)
(* records written before the reserved-name guard existed                  *)

SeedDocs ==
  << StoredAbc,
     NewShortUrl(cShorturls, "http://a.io", 0, DefaultValidity * MsPerMinute,
                 DefaultValidity),
     NewShortUrl(cApi, "http://a.io", 0, DefaultValidity * MsPerMinute,
                 DefaultValidity) >>

InitSeeded ==
  /\ ShortUrl = SeedDocs
  /\ Click = << >>
  /\ clock = 0
  /\ req = [r \in Reqs |-> IdleReq]
  /\ obs = [r \in Reqs |-> NoObs]
  /\ hist = NoHist
  /\ nStarted = 0
  /\ log = IdleLog

NextSeeded ==
  \/ \E b \in AllCreateInputs : CreateStart(1, b)
  \/ AllocDesired(1)
  \/ \E c \in generateShortcode(AllGenPool, GenLength) : AllocGenerated(1, c)
  \/ Save(1)
  \/ \E sc \in AllRedirectInputs : RedirectStart(1, sc)
  \/ Find(1)
  \/ ExpiryCheck(1)
  \/ ClickSave(1)
  \/ Increment(1)
  \/ \E sc \in AllDetailInputs : DetailStart(1, sc)
  \/ DetailFind(1)
  \/ DetailClicks(1)
  \/ ListStart(1)
  \/ ListFind(1)
  \/ \E d \in TickSteps : Tick(d)
  \/ Finish(1)

SpecSeeded == InitSeeded /\ [][NextSeeded]_vars

----------------------------------------------------------------------------
(* One create request racing with creates served by other processes on the *)
(* same database                                                           *)

\* the non-reserved values generateShortcode returns during the race
RivalOrder ==
  << <<"a","a","a","a","a","a">>, <<"a","a","a","a","a","b">>,
     <<"a","a","a","a","a","c">>, <<"a","a","a","a","a","d">>,
     <<"a","a","a","a","a","e">>, <<"a","a","a","a","a","f">> >>

RivalPool == AllGenPool \cup Range(RivalOrder)

\* The random candidates are interchangeable: what a draw does next depends
\* only on whether it is reserved, already stored, or not stored yet.  A draw
\* is one of: a reserved candidate, the last stored candidate of RivalOrder,
\* or the first candidate of RivalOrder that is not stored.
RivalDraws ==
  LET fresh == { i \in 1..Len(RivalOrder) : ~DuplicateKey(ShortUrl, RivalOrder[i]) }
      taken == { i \in 1..Len(RivalOrder) : DuplicateKey(ShortUrl, RivalOrder[i]) }
  IN  (AllGenPool \ GenPool)
        \cup { RivalOrder[i] : i \in { j \in taken : \A k \in taken : j >= k } }
        \cup { RivalOrder[i] : i \in { j \in fresh : \A k \in fresh : j <= k } }

\* the number of create requests served during the race
RivalRequests == 1

\* the request bodies of the racing create
RivalCreateInputs ==
  { Body("https://example.com", Minutes(2), Null),
    Body("https://example.com", NoValidity, cAbd),
    Body("https://example.com", NoValidity, cApi) }

\* a create served by another process allocated the same shortcode c as a
\* request of this process and its save() reaches the database first
Rival(c) ==
  /\ NoneDone
  /\ \E r \in Reqs : req[r].pc = "save" /\ req[r].chosen = c
  /\ ~DuplicateKey(ShortUrl, c)
  /\ ShortUrl' = Append(ShortUrl,
                        NewShortUrl(c, "http://a.io", clock,
                                    clock + DefaultValidity * MsPerMinute,
                                    DefaultValidity))
  /\ UNCHANGED <<Click, clock, req, obs, hist, nStarted, log>>

NextRivals ==
  \/ \E b \in RivalCreateInputs : nStarted < RivalRequests /\ CreateStart(1, b)
  \/ AllocDesired(1)
  \/ \E c \in generateShortcode(RivalDraws, GenLength) : AllocGenerated(1, c)
  \/ Save(1)
  \/ \E c \in RivalPool \cup {cAbd} : Rival(c)
  \/ Finish(1)

SpecRivals == Init /\ [][NextRivals]_vars

----------------------------------------------------------------------------
(* Requests whose storage call never returns *)

\* the positions at which a handler awaits a storage call
AwaitingPcs == {"allocDesired", "allocGen", "save", "find", "clickSave", "inc"}

\* the promise of the pending storage call never settles: no statement of the
\* handler runs again, as no await carries a deadline
Hang(r) ==
  /\ NoneDone
  /\ req[r].pc \in AwaitingPcs
  /\ req' = [req EXCEPT ![r].pc = "hung"]
  /\ UNCHANGED <<ShortUrl, Click, clock, obs, hist, nStarted, log>>

\* the continuation of a handler after a storage call settled
HandlerSteps ==
  \/ AllocDesired(1)
  \/ \E c \in generateShortcode(GenPool, GenLength) : AllocGenerated(1, c)
  \/ Save(1)
  \/ Find(1)
  \/ ExpiryCheck(1)
  \/ ClickSave(1)
  \/ Increment(1)
  \/ Finish(1)

NextHang ==
  \/ \E b \in CreateInputs : CreateStart(1, b)
  \/ \E sc \in RedirectInputs : RedirectStart(1, sc)
  \/ HandlerSteps
  \/ Hang(1)

\* the event loop runs every continuation whose storage call has settled
SpecHang == Init /\ [][NextHang]_vars /\ WF_vars(HandlerSteps)

----------------------------------------------------------------------------
(* Calls of Log *)

\* the number of Log calls
MaxLogCalls == 2

\* the arguments of the Log calls; Null stands for a missing argument
LogStacks == { Null, <<"b","a","c","k","e","n","d">>, <<"B","a","c","k","e","n","d">>,
               <<"f","r","o","n","t","e","n","d">>, <<"s","e","r","v","e","r">> }
LogLevels == { Null, <<"i","n","f","o">>, <<"E","R","R","O","R">>, <<"w","a","r","n">> }
LogPackages == { Null, <<"d","b">>, <<"C","r","o","n","-","J","o","b">>, <<"a","p","i">>,
                 <<"b","i","l","l","i","n","g">> }

\* a fallbackWrite without its try/catch: a failed append throws
fallbackWriteUnguarded(l, kind, writeOk) ==
  [l EXCEPT !.fallbackWrites = @ + 1,
            !.wrote = writeOk,
            !.threw = ~writeOk,
            !.file = IF writeOk THEN Append(@, kind) ELSE @]

\* fallbackWrite(payload): the append, and the catch that ignores its failure
fallbackWrite(l, kind, writeOk) ==
  [l EXCEPT !.fallbackWrites = @ + 1,
            !.wrote = writeOk,
            !.file = IF writeOk THEN Append(@, kind) ELSE @]

\* the async function ends: it returns, or an exception that left the last
\* statement rejects its promise
LogEnds(l) ==
  [l EXCEPT !.pc = "done",
            !.outcome = IF l.threw THEN "rejected" ELSE "returned"]

\* Log(stack, level, pkg, message) up to its await
LogStart(stack, level, pkg, token) ==
  LET payload == validateAndNormalize(stack, level, pkg)
      l0 == [IdleLog EXCEPT !.stack = stack, !.level = level, !.package = pkg,
                            !.token = token, !.payload = payload,
                            !.file = log.file, !.calls = log.calls + 1]
  IN /\ log.pc = "idle"
     /\ log.calls < MaxLogCalls
     /\ UNCHANGED <<ShortUrl, Click, clock, req, obs, hist, nStarted>>
     /\ IF ~payload.ok
        THEN \E w \in BOOLEAN : log' = LogEnds(fallbackWrite(l0, "invalid", w))
        ELSE IF ~token
        THEN \E w \in BOOLEAN : log' = LogEnds(fallbackWrite(l0, "noToken", w))
        ELSE log' = [l0 EXCEPT !.pc = "posting", !.remoteCalls = @ + 1]

\* axios.post(...) settles: the response, or an error or the 4000 ms timeout
LogPosted ==
  /\ log.pc = "posting"
  /\ UNCHANGED <<ShortUrl, Click, clock, req, obs, hist, nStarted>>
  /\ \E outcome \in {"ok", "error"}, w \in BOOLEAN :
       IF outcome = "ok"
       THEN log' = LogEnds([log EXCEPT !.remote = "ok", !.wrote = w,
                              !.file = IF w THEN Append(@, "sent") ELSE @])
       ELSE log' = LogEnds(fallbackWrite([log EXCEPT !.remote = "error"],
                                         "remoteError", w))

\* the caller has the result; the next call can start
LogFinish ==
  /\ log.pc = "done"
  /\ log' = [IdleLog EXCEPT !.file = log.file, !.calls = log.calls]
  /\ UNCHANGED <<ShortUrl, Click, clock, req, obs, hist, nStarted>>

NextLog ==
  \/ \E stack \in LogStacks, level \in LogLevels, pkg \in LogPackages,
        token \in BOOLEAN : LogStart(stack, level, pkg, token)
  \/ LogPosted
  \/ LogFinish

SpecLog == Init /\ [][NextLog]_vars

----------------------------------------------------------------------------
(* Properties *)

\* x is a reserved name in some letter case
IsReservedFolded(x) ==
  \E n \in RESERVED_SHORTCODES :
    /\ Len(n) = Len(x)
    /\ \A i \in 1..Len(n) : LowerChar(x[i]) = n[i]

Done(r) == req[r].pc = "done"
IsCreate(r) == req[r].kind = "create"
IsRedirect(r) == req[r].kind = "redirect"

\* the stored records with shortcode sc
Stored(sc) == {i \in 1..Len(ShortUrl) : ShortUrl[i].shortcode = sc}

\* the stored click events with shortcode sc
Events(sc) == {i \in 1..Len(Click) : Click[i].shortcode = sc}

\* C1: no two stored ShortLink records have the same shortcode, whatever the
\* interleaving of the create requests, and the shortcode a successful create
\* returns names exactly one stored record (so N successful creates return N
\* pairwise distinct shortcodes).
C1_UniqueShortcodes ==
  /\ \A i, j \in 1..Len(ShortUrl) :
       i # j => ShortUrl[i].shortcode # ShortUrl[j].shortcode
  /\ \A r \in Reqs :
       (Done(r) /\ IsCreate(r) /\ req[r].res.status = 201)
         => Cardinality(Stored(req[r].res.shortLink)) = 1

\* two records are stored and a create lost the insert race, retried and
\* succeeded with another shortcode
C1_Witness ==
  /\ Len(ShortUrl) >= 2
  /\ \E r \in Reqs :
       Done(r) /\ IsCreate(r) /\ obs[r].dups >= 1 /\ req[r].res.status = 201

\* C2: a create with a desired shortcode that passed the existence check and
\* then lost the insert race (duplicate key) ends with Conflict, after a
\* single insert attempt, without a generated shortcode (storage calls that
\* fail for other reasons aside).
C2_LoserGetsConflict ==
  \A r \in Reqs :
    (Done(r) /\ IsCreate(r) /\ obs[r].desired # Null /\ obs[r].preOk
       /\ obs[r].dups >= 1 /\ ~obs[r].dbFailed)
      => /\ req[r].res.status = 409
         /\ obs[r].saves = 1
         /\ req[r].res.shortLink = Null

\* C3: a redirect of an existing, non-expired, non-reserved shortcode whose
\* click write (event append or counter increment) failed still answers with
\* the redirect to the record's originalUrl.
C3_RedirectSurvivesWriteFailure ==
  \A r \in Reqs :
    (Done(r) /\ IsRedirect(r) /\ obs[r].active /\ obs[r].writeFailed)
      => /\ req[r].res.status = 302
         /\ req[r].res.location = req[r].doc.originalUrl

\* the number of 302 responses sent for shortcode sc
Sent302(sc) ==
  Cardinality({i \in 1..Len(hist.sent302) : hist.sent302[i] = sc})

\* C4: once no request is in flight and no click write has failed, the
\* clicksCount of every record equals the number of redirects (302) served
\* for its shortcode and the number of stored ClickEvents with its shortcode.
C4_CounterConsistency ==
  (Quiescent /\ ~hist.writeFailed)
    => \A i \in 1..Len(ShortUrl) :
         /\ ShortUrl[i].clicksCount = Sent302(ShortUrl[i].shortcode)
         /\ ShortUrl[i].clicksCount
              = Cardinality(Events(ShortUrl[i].shortcode))

\* no request in flight, no write failure, two redirects served for a record
C4_Witness ==
  /\ Quiescent
  /\ ~hist.writeFailed
  /\ \E i \in 1..Len(ShortUrl) :
       ShortUrl[i].clicksCount = 2 /\ Sent302(ShortUrl[i].shortcode) = 2

\* the redirect request r has compared the time with the record's expiryAt
Checked(r) ==
  IsRedirect(r) /\ req[r].doc # NullDoc /\ req[r].pc # "expiry"

\* C5: a redirect that found its record is classified by the strict
\* comparison of the time of the check with expiryAt: later than expiryAt it
\* ends with 410 (Gone); at or before expiryAt (equality included) it is
\* Active, goes on to record the click, and its redirect goes to the record's
\* originalUrl (a failed click write ends it with 500 instead, see C3).
C5_StrictExpiry ==
  \A r \in Reqs :
    Checked(r) =>
      /\ req[r].doc.shortcode = req[r].sc
      /\ IF req[r].now > req[r].doc.expiryAt
         THEN Done(r) /\ req[r].res.status = 410 /\ ~obs[r].active
         ELSE /\ obs[r].active
              /\ req[r].res.status # 410
              /\ Done(r) =>
                   IF obs[r].writeFailed
                   THEN req[r].res.status = 500
                   ELSE /\ req[r].res.status = 302
                        /\ req[r].res.location = req[r].doc.originalUrl

\* a redirect served at the very instant of expiryAt
C5_Witness ==
  \E r \in Reqs :
    /\ Done(r) /\ Checked(r)
    /\ req[r].now = req[r].doc.expiryAt
    /\ req[r].res.status = 302

\* the step ends redirect request r with Gone or NotFound
EndsGoneOrNotFound(r) ==
  /\ ~Done(r)
  /\ req'[r].pc = "done"
  /\ req'[r].kind = "redirect"
  /\ req'[r].res.status \in {404, 410}

\* C6: a redirect that ends in Gone or NotFound has appended no ClickEvent
\* and incremented no counter, and the step that ends it leaves the stored
\* records and click events as they were.
C6_NoClickOnGoneOrNotFound ==
  /\ [](\A r \in Reqs :
          (Done(r) /\ IsRedirect(r) /\ req[r].res.status \in {404, 410})
            => obs[r].clickSaved = 0 /\ obs[r].incs = 0)
  /\ [][\A r \in Reqs :
          EndsGoneOrNotFound(r) => Click' = Click /\ ShortUrl' = ShortUrl]_vars

\* a redirect ends with Gone on a record that was clicked before it expired
C6_Witness ==
  \E r \in Reqs :
    /\ Done(r) /\ IsRedirect(r) /\ req[r].res.status = 410
    /\ req[r].doc.clicksCount >= 1
    /\ Cardinality(Events(req[r].sc)) = req[r].doc.clicksCount

\* C7: a redirect for a reserved name, in any letter case, ends with NotFound
\* without a storage call, whatever the storage holds, and no record with a
\* reserved shortcode is ever clicked.
C7_ReservedNeverResolves ==
  /\ \A r \in Reqs :
       (IsRedirect(r) /\ IsReservedFolded(req[r].sc))
         => /\ Done(r)
            /\ req[r].res = Json(404, ErrNotFound)
            /\ obs[r].dbOps = 0
  /\ \A i \in 1..Len(ShortUrl) :
       IsReservedFolded(ShortUrl[i].shortcode) => ShortUrl[i].clicksCount = 0

\* a redirect for a reserved name ends with NotFound although a record with
\* that very shortcode is stored
C7_Witness ==
  \E r \in Reqs :
    /\ Done(r) /\ IsRedirect(r) /\ req[r].res.status = 404
    /\ req[r].sc = cApi
    /\ Stored(req[r].sc) # {}

\* the responses for malformed input and for a taken shortcode
InvalidInputOrConflict ==
  {Json(400, e) :
     e \in {ErrUrlRequired, ErrUrlInvalid, ErrValidity, ErrShortcodeInvalid}}
    \cup {Json(409, ErrExists)}

\* C8: a create whose shortcode is a reserved name, in any letter case, makes
\* no storage call and stores nothing; when the name reaches
\* makeUniqueShortcode (the url is valid and the name has the shortcode
\* format) the request fails with the reserved-name error, which differs from
\* the errors for malformed input and for a taken shortcode.
C8_ReservedRejected ==
  \A r \in Reqs :
    (IsCreate(r) /\ IsReservedFolded(trim(req[r].body.shortcode)))
      => /\ Done(r)
         /\ obs[r].dbOps = 0 /\ obs[r].saves = 0 /\ obs[r].inserts = 0
         /\ req[r].res.status = 400
         /\ (isValidUrl(req[r].body.url)
               /\ MatchesShortcode(trim(req[r].body.shortcode)))
              => obs[r].desired = trim(req[r].body.shortcode)
         /\ obs[r].desired # Null
              => /\ req[r].res = Json(400, ErrNotAllowed)
                 /\ req[r].res \notin InvalidInputOrConflict

\* a create for HEALTH is refused with the reserved-name error
C8_Witness ==
  \E r \in Reqs :
    /\ Done(r) /\ IsCreate(r)
    /\ req[r].body.shortcode = cHEALTH
    /\ obs[r].desired = cHEALTH
    /\ req[r].res = Json(400, ErrNotAllowed)

\* the body of create request r has a valid url and a format-valid,
\* non-reserved desired shortcode
ValidDesired(r) ==
  /\ IsCreate(r)
  /\ isValidUrl(req[r].body.url)
  /\ MatchesShortcode(trim(req[r].body.shortcode))
  /\ ~IsReservedFolded(trim(req[r].body.shortcode))

\* C9: for a format-valid, non-reserved desired shortcode makeUniqueShortcode
\* is called with the trimmed shortcode; when no record has it, the single
\* existence check returns exactly that shortcode to the handler, which
\* inserts it first (storage calls that fail aside).
C9_DesiredReturnedExactly ==
  /\ [](\A r \in Reqs :
          ValidDesired(r) =>
            /\ obs[r].desired = trim(req[r].body.shortcode)
            /\ (obs[r].preOk /\ obs[r].dups = 0)
                 => /\ req[r].chosen = trim(req[r].body.shortcode)
                    /\ obs[r].finds = 1)
  /\ [][\A r \in Reqs :
          ( /\ ValidDesired(r)
            /\ req[r].pc = "allocDesired"
            /\ req'[r].pc # "allocDesired"
            /\ Stored(trim(req[r].body.shortcode)) = {}
            /\ ~obs'[r].dbFailed )
          => /\ req'[r].pc = "save"
             /\ req'[r].chosen = trim(req[r].body.shortcode)
             /\ obs'[r].dbOps = 1]_vars

\* the padded, mixed-case shortcodes come back trimmed and otherwise untouched
C9_Witness ==
  \E r \in Reqs :
    /\ req[r].pc = "save" /\ req[r].attempt = 0 /\ obs[r].preOk
    /\ req[r].body.shortcode = cAbC
    /\ req[r].chosen = cAbC
    /\ Stored(cAbc) # {}

\* C10: a create whose desired shortcode is already stored when the request
\* arrives never attempts an insert, ends with Conflict (unless the lookup
\* itself fails), and none of its steps changes a stored record.
C10_ExistingConflict ==
  /\ [](\A r \in Reqs :
          (IsCreate(r) /\ obs[r].existed)
            => /\ obs[r].saves = 0 /\ obs[r].inserts = 0
               /\ (Done(r) /\ ~obs[r].dbFailed)
                    => req[r].res = Json(409, ErrExists))
  /\ [][\A r \in Reqs :
          (obs[r].existed /\ req'[r] # req[r]) => ShortUrl' = ShortUrl]_vars

\* a create for a taken shortcode ends with Conflict; the stored record keeps
\* the originalUrl of its own create and the click it has received
C10_Witness ==
  \E r \in Reqs :
    /\ Done(r) /\ IsCreate(r) /\ obs[r].existed
    /\ req[r].res.status = 409
    /\ \E i \in Stored(req[r].sc) :
         /\ ShortUrl[i].originalUrl # req[r].body.url
         /\ ShortUrl[i].clicksCount = 1


\* the save loop issues at most SaveAttempts inserts, and a request all of
\* whose inserts met a duplicate key answers 500 and stores nothing
SaveLoopBounded ==
  \A r \in Reqs :
    IsCreate(r) =>
      /\ obs[r].saves <= SaveAttempts
      /\ obs[r].dups <= obs[r].saves
      /\ (Done(r) /\ obs[r].dups = SaveAttempts)
           => /\ req[r].res.status = 500
              /\ obs[r].inserts = 0

\* C11: a create without a desired shortcode retries the insert with a new
\* candidate on a duplicate key, issues at most 5 inserts, and when all 5 met
\* a duplicate key it stores nothing and ends with the exhaustion error, an
\* answer that differs from the one given to an opaque storage failure.
C11_ExhaustionSignalled ==
  \A r \in Reqs :
    ( /\ Done(r) /\ IsCreate(r)
      /\ req[r].body.shortcode = Null
      /\ obs[r].dups = SaveAttempts
      /\ ~obs[r].dbFailed )
      => /\ obs[r].saves = SaveAttempts
         /\ obs[r].inserts = 0
         /\ req[r].res.status = 500
         /\ req[r].res.error # ErrInternal


\* one round of the generation loop of request r: a candidate that is
\* reserved or stored is skipped, any other candidate is returned at once
GenerationRound(r) ==
  LET c == obs'[r].candidate
      failed == obs'[r].dbFailed
      unavailable == IsReservedFolded(c) \/ Stored(c) # {}
  IN (req[r].pc = "allocGen" /\ req'[r] # req[r])
       => /\ (req'[r].pc = "save")
               => /\ ~unavailable
                  /\ req'[r].genAttempt = req[r].genAttempt
          /\ (~unavailable /\ ~failed) => req'[r].chosen = c
          /\ (unavailable /\ ~failed)
               => /\ req'[r].genAttempt = req[r].genAttempt + 1
                  /\ req'[r].chosen = req[r].chosen
                  /\ req'[r].pc \in {"allocGen", "done"}
          /\ IsReservedFolded(c) => obs'[r].finds = obs[r].finds
          /\ UNCHANGED ShortUrl

\* the generation loop never starts a ninth round, and the exhaustion error
\* is the answer exactly when the eighth round found nothing
GenerationBounded(r) ==
  IsCreate(r) =>
    /\ req[r].genAttempt <= GenAttempts
    /\ (req[r].pc = "allocGen") => req[r].genAttempt < GenAttempts
    /\ (Done(r) /\ req[r].res.error = ErrExhausted)
         => /\ req[r].genAttempt = GenAttempts
            /\ req[r].res.status = 500
    /\ (req[r].genAttempt = GenAttempts)
         => (Done(r) /\ req[r].res.error = ErrExhausted)

\* C12: allocation without a desired shortcode makes at most 8 candidate
\* attempts, skips every candidate that is reserved or stored, returns the
\* first candidate found absent from storage, and fails with the exhaustion
\* error when none of the 8 attempts gave an available candidate.
C12_GenerationLoop ==
  /\ [](\A r \in Reqs : GenerationBounded(r))
  /\ [][\A r \in Reqs : GenerationRound(r)]_vars

\* a request that skipped stored and reserved candidates for 8 rounds after a
\* duplicate key and ended with the exhaustion error
C12_Witness ==
  \E r \in Reqs :
    /\ Done(r) /\ IsCreate(r)
    /\ req[r].res.error = ErrExhausted
    /\ req[r].genAttempt = GenAttempts
    /\ obs[r].dups >= 1
    /\ obs[r].finds > obs[r].dups + 1


\* the validity of the body was supplied and is not a positive integer
InvalidValidity(b) ==
  /\ b.validity # NoValidity
  /\ ~(b.validity.isInt /\ b.validity.val > 0)

\* C13: a create whose validity is supplied but is zero, negative or not an
\* integer is rejected with status 400 and stores no record.
C13_InvalidValidityRejected ==
  \A r \in Reqs :
    (Done(r) /\ IsCreate(r) /\ InvalidValidity(req[r].body))
      => /\ req[r].res.status = 400
         /\ obs[r].inserts = 0


\* the body has no url or a malformed one, or carries a shortcode that after
\* trimming is shorter than 3, longer than 30, or has a character outside
\* [A-Za-z0-9_-]
Malformed(b) ==
  \/ b.url \notin ValidUrls
  \/ /\ b.shortcode # Null
     /\ LET t == trim(b.shortcode)
        IN \/ Len(t) < 3
           \/ Len(t) > 30
           \/ \E i \in 1..Len(t) :
                t[i] \notin (Range(UpperChars) \cup Range(LowerChars)
                               \cup Range(DigitChars) \cup {"_", "-"})

\* C14: a create with a missing or malformed url, or with a malformed
\* shortcode, is answered 400 in the step that receives it, before any storage
\* operation of the request, and the stored records and click events are
\* the same after the rejection.
C14_MalformedRejectedEarly ==
  /\ [](\A r \in Reqs :
          (IsCreate(r) /\ Malformed(req[r].body))
            => /\ Done(r)
               /\ req[r].res.status = 400
               /\ obs[r].dbOps = 0 /\ obs[r].finds = 0 /\ obs[r].saves = 0)
  /\ [][\A r \in Reqs :
          (req[r].pc = "idle" /\ IsCreate(r)' /\ Malformed(req'[r].body))
            => UNCHANGED <<ShortUrl, Click>>]_vars

\* rejected bodies of each kind: no url, a malformed url, a shortcode of 31
\* characters and one with a character outside the class
C14_Witness ==
  \E r \in Reqs :
    /\ Done(r) /\ IsCreate(r)
    /\ req[r].res.status = 400
    /\ req[r].body.shortcode = cTooLong
    /\ req[r].res.error = ErrShortcodeInvalid
    /\ obs[r].dbOps = 0


\* the validity a stored record must carry for the body b: the requested
\* positive integer, 30 when none was given
ExpectedValidity(b) ==
  IF b.validity = NoValidity THEN {30}
  ELSE IF b.validity.isInt /\ b.validity.val > 0 THEN {b.validity.val}
  ELSE 1..MaxTime

\* C15: every stored record has expiryAt = createdAt + validityMinutes
\* minutes with validityMinutes positive, hence expiryAt > createdAt; a create
\* answered 201 returns the expiryAt of the record it stored, whose
\* validityMinutes is the requested positive integer or 30 when none was
\* given, also when the insert was retried with a new shortcode.
C15_ExpiryFromValidity ==
  /\ \A i \in 1..Len(ShortUrl) :
       /\ ShortUrl[i].validityMinutes > 0
       /\ ShortUrl[i].expiryAt
            = ShortUrl[i].createdAt + ShortUrl[i].validityMinutes * 60000
       /\ ShortUrl[i].expiryAt > ShortUrl[i].createdAt
  /\ \A r \in Reqs :
       (Done(r) /\ IsCreate(r) /\ req[r].res.status = 201)
         => \E i \in 1..Len(ShortUrl) :
              /\ ShortUrl[i].shortcode = req[r].res.shortLink
              /\ ShortUrl[i].expiryAt = req[r].res.expiry
              /\ ShortUrl[i].validityMinutes \in ExpectedValidity(req[r].body)

\* a create asking for 2 minutes whose insert was retried later with a new
\* shortcode, answered with the expiry it computed at first
C15_Witness ==
  \E r \in Reqs :
    /\ Done(r) /\ IsCreate(r) /\ req[r].res.status = 201
    /\ req[r].body.validity = Minutes(2)
    /\ obs[r].dups >= 1
    /\ req[r].res.expiry = req[r].now + 2 * 60000
    /\ clock > req[r].now


\* C16: a stored record is never deleted and its shortcode, originalUrl,
\* createdAt and expiryAt never change, whatever the step (create, redirect,
\* detail, list, the passing of time); only its clicksCount changes.
C16_RecordsImmutable ==
  [][ /\ Len(ShortUrl') >= Len(ShortUrl)
      /\ \A i \in 1..Len(ShortUrl) :
           ShortUrl'[i] = [ShortUrl[i] EXCEPT !.clicksCount = ShortUrl'[i].clicksCount]
    ]_vars

\* a record that has expired and was redirected to once is still stored and
\* listed, next to the seeded records
C16_Witness ==
  /\ ShortUrl[1] = [StoredAbc EXCEPT !.clicksCount = 1]
  /\ clock > StoredAbc.expiryAt
  /\ \E r \in Reqs :
       /\ Done(r) /\ req[r].kind = "list" /\ req[r].res.status = 200
       /\ Len(req[r].res.list) = Len(SeedDocs)


\* the click events appended by the step, if any
Appended == SubSeq(Click', Len(Click) + 1, Len(Click'))

\* C17: a request answered 302 has appended exactly one click event, carrying
\* its shortcode, before the answer; a step appends at most one event, and
\* the events already stored are never changed or removed.
C17_OneClickBeforeRedirect ==
  /\ [](\A r \in Reqs :
          (Done(r) /\ req[r].res.status = 302)
            => /\ obs[r].clickSaved = 1
               /\ \E i \in 1..Len(Click) :
                    Click[i] = [shortcode |-> req[r].sc, clickedAt |-> req[r].now])
  /\ [][ /\ Len(Click') >= Len(Click)
         /\ SubSeq(Click', 1, Len(Click)) = Click
         /\ Len(Appended) <= 1
         /\ \A r \in Reqs :
              (obs'[r].clickSaved > obs[r].clickSaved)
                => /\ obs'[r].clickSaved = obs[r].clickSaved + 1
                   /\ req'[r].pc = "inc"
                   /\ Len(Appended) = 1
                   /\ Appended[1].shortcode = req[r].sc
         /\ (Len(Appended) = 1)
              => \E r \in Reqs : obs'[r].clickSaved = obs[r].clickSaved + 1
       ]_vars

\* the second redirect of the same shortcode is answered 302 with two events
\* stored
C17_Witness ==
  \E r \in Reqs :
    /\ Done(r) /\ IsRedirect(r) /\ req[r].res.status = 302
    /\ obs[r].clickSaved = 1
    /\ Len(Click) = 2
    /\ Click[1].shortcode = req[r].sc /\ Click[2].shortcode = req[r].sc


C19_NeverOverCounted ==
  \A i \in 1..Len(ShortUrl) :
    ShortUrl[i].clicksCount <= Cardinality(Events(ShortUrl[i].shortcode))

\* the increment failed after the event was stored: the request ended with
\* 500 and the counter is behind the events
C19_Witness ==
  \E r \in Reqs :
    /\ Done(r) /\ IsRedirect(r) /\ req[r].res.status = 500
    /\ obs[r].clickSaved = 1 /\ obs[r].incs = 0
    /\ \E i \in 1..Len(ShortUrl) :
         /\ ShortUrl[i].shortcode = req[r].sc
         /\ ShortUrl[i].clicksCount < Cardinality(Events(req[r].sc))


\* C20: in every state no stored record has a shortcode that is a reserved
\* name in any letter case, whether the shortcode was desired, generated, or
\* generated again after a duplicate key.
C20_NoReservedStored ==
  \A i \in 1..Len(ShortUrl) : ~IsReservedFolded(ShortUrl[i].shortcode)

\* a create with a desired shortcode lost the insert to a concurrent create,
\* drew reserved candidates in the retry and stored a generated shortcode
C20_Witness ==
  \E r \in Reqs :
    /\ Done(r) /\ IsCreate(r) /\ req[r].res.status = 201
    /\ req[r].body.shortcode = cAbd
    /\ obs[r].dups = 1
    /\ req[r].genAttempt >= 1
    /\ obs[r].finds = 2
    /\ Stored(req[r].res.shortLink) # {}


\* C21: within one create request every insert uses a shortcode that has not
\* failed with a duplicate key in that request, and a retried insert uses the
\* shortcode generated last; no shortcode is inserted twice by a request.
C21_RetryUsesNewCode ==
  /\ [](\A r \in Reqs :
          (IsCreate(r) /\ req[r].pc = "save")
            => /\ req[r].chosen \notin obs[r].failed
               /\ req[r].retrying => req[r].chosen = obs[r].candidate)
  /\ [][\A r \in Reqs :
          (obs'[r].saves = obs[r].saves + 1)
            => /\ req[r].chosen \notin obs[r].failed
               /\ Cardinality(obs'[r].failed) = obs'[r].dups
               /\ (obs'[r].dups = obs[r].dups + 1)
                    => obs'[r].failed = obs[r].failed \cup {req[r].chosen}
       ]_vars

\* a request whose inserts failed twice with a duplicate key drew a stored
\* candidate again, skipped it, and stored a third shortcode
C21_Witness ==
  \E r \in Reqs :
    /\ Done(r) /\ IsCreate(r) /\ req[r].res.status = 201
    /\ Cardinality(obs[r].failed) = 2
    /\ req[r].genAttempt >= 1
    /\ req[r].res.shortLink \notin obs[r].failed
    /\ \A c \in obs[r].failed : Stored(c) # {}


\* C22: when an insert fails with a storage error other than a duplicate key,
\* the create request ends in that step with 500 "internal server error",
\* the stored records are unchanged, and the request has inserted nothing.
C22_OpaqueErrorNotRetried ==
  /\ [](\A r \in Reqs :
          (IsCreate(r) /\ obs[r].dbFailed)
            => /\ Done(r)
               /\ req[r].res = Json(500, "internal server error")
               /\ obs[r].inserts = 0)
  /\ [][\A r \in Reqs :
          (req[r].pc = "save" /\ obs'[r].dbFailed)
            => /\ Done(r)'
               /\ obs'[r].saves = obs[r].saves + 1
               /\ obs'[r].dups = obs[r].dups
               /\ UNCHANGED ShortUrl
       ]_vars

\* the second insert of a request, made after a duplicate key, failed with
\* another storage error: 500, two inserts issued, nothing stored by it
C22_Witness ==
  \E r \in Reqs :
    /\ Done(r) /\ IsCreate(r) /\ obs[r].dbFailed
    /\ obs[r].dups = 1 /\ obs[r].saves = 2 /\ obs[r].inserts = 0
    /\ req[r].res.status = 500
    /\ Stored(req[r].chosen) = {}


\* the records whose clicksCount the step changes
Recounted ==
  {i \in 1..Len(ShortUrl) : ShortUrl'[i].clicksCount # ShortUrl[i].clicksCount}

\* request r is a redirect that passed the reserved-name guard, found its
\* record and found it not expired, and the step is its increment
IncrementOf(r, i) ==
  /\ IsRedirect(r) /\ req[r].pc = "inc"
  /\ obs'[r].incs = obs[r].incs + 1
  /\ ShortUrl[i].shortcode = req[r].sc
  /\ ~IsReservedFolded(req[r].sc)
  /\ req[r].doc.shortcode = req[r].sc
  /\ req[r].now <= req[r].doc.expiryAt
  /\ obs[r].clickSaved = 1

\* C23: a record is stored with clicksCount 0; a step changes the clicksCount
\* of at most one record, by +1, and only as the increment of a redirect that
\* passed the reserved, lookup and expiry checks; a step of a create, detail
\* or list request changes no clicksCount and adds no click event.
C23_CounterFrame ==
  [][ /\ Len(ShortUrl') >= Len(ShortUrl)
      /\ \A i \in (Len(ShortUrl) + 1)..Len(ShortUrl') : ShortUrl'[i].clicksCount = 0
      /\ Cardinality(Recounted) <= 1
      /\ \A i \in Recounted :
           /\ ShortUrl'[i].clicksCount = ShortUrl[i].clicksCount + 1
           /\ \E r \in Reqs : IncrementOf(r, i)
      /\ \A r \in Reqs :
           (req'[r] # req[r] /\ {req[r].kind, req'[r].kind} \cap {"create", "detail", "list"} # {})
             => (Recounted = {} /\ Click' = Click)
    ]_vars

\* a list request reports the one click a redirect counted
C23_Witness ==
  \E r \in Reqs :
    /\ Done(r) /\ req[r].kind = "list" /\ req[r].res.status = 200
    /\ \E i \in 1..Len(req[r].res.list) : req[r].res.list[i].clicksCount = 1
    /\ Len(Click) = 1


\* the letters and digits, and the class [A-Za-z0-9_-]
Alphanumeric == Range(UpperChars) \cup Range(LowerChars) \cup Range(DigitChars)
ShortcodeClass == Alphanumeric \cup {"_", "-"}

\* C24: in every state the shortcode of every stored record has 3 to 30
\* characters, all of [A-Za-z0-9_-]; a shortcode a create generated (none was
\* supplied, or the insert was retried) has 6 characters, all alphanumeric.
C24_StoredShortcodeFormat ==
  /\ \A i \in 1..Len(ShortUrl) :
       /\ Len(ShortUrl[i].shortcode) >= 3
       /\ Len(ShortUrl[i].shortcode) <= 30
       /\ \A k \in 1..Len(ShortUrl[i].shortcode) :
            ShortUrl[i].shortcode[k] \in ShortcodeClass
  /\ \A r \in Reqs :
       ( /\ Done(r) /\ IsCreate(r) /\ req[r].res.status = 201
         /\ (req[r].body.shortcode = Null \/ obs[r].dups >= 1) )
         => /\ Len(req[r].res.shortLink) = 6
            /\ \A k \in 1..6 : req[r].res.shortLink[k] \in Alphanumeric
            /\ Stored(req[r].res.shortLink) # {}

\* a supplied shortcode of 30 characters is stored as it is
C24_Witness ==
  \E r \in Reqs :
    /\ Done(r) /\ IsCreate(r) /\ req[r].res.status = 201
    /\ req[r].body.shortcode = cMaxLen
    /\ Stored(cMaxLen) # {}
    /\ Len(req[r].res.shortLink) = 30


\* a stored record with shortcode sc has expired
ExpiredRecord(sc) ==
  \E i \in 1..Len(ShortUrl) :
    ShortUrl[i].shortcode = sc /\ clock > ShortUrl[i].expiryAt

\* C25: an expired record keeps its shortcode: a create that desires the
\* shortcode of an expired record is answered 409, a generated candidate equal
\* to the shortcode of an expired record is skipped, and no insert stores the
\* shortcode of an expired record again.
C25_ExpiredStillOccupies ==
  [][ /\ \A r \in Reqs :
           (req[r].pc = "allocDesired" /\ req'[r] # req[r]
              /\ ExpiredRecord(req[r].sc) /\ ~obs'[r].dbFailed)
             => req'[r].res = Json(409, "shortcode already exists")
      /\ \A r \in Reqs :
           (req[r].pc = "allocGen" /\ req'[r] # req[r]
              /\ ExpiredRecord(obs'[r].candidate) /\ ~obs'[r].dbFailed)
             => /\ req'[r].pc # "save"
                /\ req'[r].chosen = req[r].chosen
                /\ req'[r].genAttempt = req[r].genAttempt + 1
      /\ \A i \in (Len(ShortUrl) + 1)..Len(ShortUrl') :
           ~ExpiredRecord(ShortUrl'[i].shortcode)
    ]_vars

\* a create that desires the shortcode of the expired record is answered 409
C25_Witness ==
  \E r \in Reqs :
    /\ Done(r) /\ IsCreate(r)
    /\ req[r].sc = cAbc /\ ExpiredRecord(cAbc)
    /\ req[r].res.status = 409
    /\ Cardinality(Stored(cAbc)) = 1

\* a generated candidate meets the shortcode of an expired record
GeneratedMeetsExpired ==
  \E r \in Reqs :
    /\ IsCreate(r) /\ req[r].pc = "allocGen" /\ req[r].genAttempt >= 1
    /\ ~IsReservedFolded(obs[r].candidate)
    /\ ExpiredRecord(obs[r].candidate)


\* C26: a detail response answered 200 has clicksTotal at most the number of
\* listed clicks, also when redirects of the same shortcode run between its
\* two reads, and every listed click has the requested shortcode; a detail
\* request for a shortcode that is not stored is answered 404.
C26_DetailConsistent ==
  \A r \in Reqs :
    (Done(r) /\ req[r].kind = "detail")
      => /\ (req[r].res.status = 200)
              => /\ req[r].res.clicksTotal <= Len(req[r].res.clicks)
                 /\ \A k \in 1..Len(req[r].res.clicks) :
                      req[r].res.clicks[k].shortcode = req[r].sc
                 /\ Stored(req[r].sc) # {}
         /\ (Stored(req[r].sc) = {} /\ ~obs[r].dbFailed)
              => req[r].res = Json(404, "shortcode not found")

\* a redirect has stored its click and not incremented yet when the detail
\* request reads: one click listed, clicksTotal 0
C26_Witness ==
  \E r \in Reqs :
    /\ Done(r) /\ req[r].kind = "detail" /\ req[r].res.status = 200
    /\ req[r].res.clicksTotal = 0
    /\ Len(req[r].res.clicks) = 1
    /\ \E o \in Reqs : IsRedirect(o) /\ req[o].pc = "inc" /\ req[o].sc = req[r].sc

\* a detail request for a shortcode that is not stored
DetailOfUnknown ==
  \E r \in Reqs :
    /\ Done(r) /\ req[r].kind = "detail"
    /\ Stored(req[r].sc) = {} /\ req[r].res.status = 404


\* the arguments name an allowed stack, an allowed level and a package that
\* is allowed for the stack, in any letter case
ValidLogArgs(stack, level, pkg) ==
  /\ stack # Null /\ level # Null /\ pkg # Null
  /\ toLowerCase(stack) \in ALLOWED_STACKS
  /\ toLowerCase(level) \in ALLOWED_LEVELS
  /\ \/ normalizePackage(pkg) \in BOTH_PACKAGES
     \/ /\ toLowerCase(stack) = <<"b","a","c","k","e","n","d">>
        /\ normalizePackage(pkg) \in BACKEND_PACKAGES
     \/ /\ toLowerCase(stack) = <<"f","r","o","n","t","e","n","d">>
        /\ normalizePackage(pkg) \in FRONTEND_PACKAGES

\* the last record of the fallback file is of the given kind
LastWritten(kind) ==
  log.wrote => (log.file # << >> /\ log.file[Len(log.file)] = kind)

\* C27: a Log call always returns and never rejects. With an invalid stack,
\* level or package, or without a token, it makes no remote call and one
\* fallbackWrite; with valid arguments and a token it makes one remote call
\* and, when that call fails, one fallbackWrite. The written record is in the
\* file whenever the append itself succeeded, and the file only grows.
C27_LogNeverThrows ==
  /\ [](/\ log.outcome # "rejected"
        /\ (log.pc = "done")
             => /\ log.outcome = "returned"
                /\ IF ~ValidLogArgs(log.stack, log.level, log.package)
                   THEN /\ log.remoteCalls = 0 /\ log.fallbackWrites = 1
                        /\ LastWritten("invalid")
                   ELSE IF ~log.token
                   THEN /\ log.remoteCalls = 0 /\ log.fallbackWrites = 1
                        /\ LastWritten("noToken")
                   ELSE /\ log.remoteCalls = 1
                        /\ log.remote \in {"ok", "error"}
                        /\ (log.remote = "error")
                             => (log.fallbackWrites = 1 /\ LastWritten("remoteError"))
                        /\ (log.remote = "ok") => log.fallbackWrites = 0)
  /\ [][ /\ SubSeq(log'.file, 1, Len(log.file)) = log.file
         /\ Len(log'.file)
              = Len(log.file)
                  + (IF log.pc # "done" /\ log'.pc = "done" /\ log'.wrote
                     THEN 1 ELSE 0)
       ]_vars

\* the remote call of a valid call with a token failed, the fallback record
\* was written, and the call returned
C27_Witness ==
  /\ log.pc = "done" /\ log.outcome = "returned"
  /\ log.token /\ log.payload.ok /\ log.package = <<"C","r","o","n","-","J","o","b">>
  /\ log.remoteCalls = 1 /\ log.remote = "error"
  /\ log.fallbackWrites = 1 /\ log.wrote
  /\ log.file[Len(log.file)] = "remoteError"

====
